---- MODULE Spec2Model ----
(***************************************************************************)
(* Model of server/agent.py: the DocumentAssistant function context        *)
(* (metadata loader, get_document_content, fetch_weather) and the session  *)
(* entrypoint that wires it to the voice pipeline agent.                    *)
(*                                                                         *)
(* Python strings are sequences of one-character strings.  Python values   *)
(* are records [t, v]: t is "none", "str" or "dict"; v is the character    *)
(* sequence of a str, the sequence of <<key, value>> pairs of a dict, and  *)
(* <<>> for None.                                                          *)
(***************************************************************************)
EXTENDS Integers, Sequences, FiniteSets, TLC

\* ---------------------------------------------------------------- bounds
MaxStrLen == 1
MaxSanLen == 4
MaxMsgs == 3
MaxCalls == 3

\* ------------------------------------------------------- string literals
NoDocumentMsg == <<"N", "o", " ", "d", "o", "c", "u", "m", "e", "n", "t", " ", "h", "a", "s", " ", "b", "e", "e", "n", " ", "u", "p", "l", "o", "a", "d", "e", "d", " ", "a", "t", " ", "t", "h", "i", "s", " ", "t", "i", "m", "e", ".">>
ContentsPrefix == <<"C", "o", "n", "t", "e", "n", "t", "s", " ", "o", "f", " ", "'">>
ContentsMiddle == <<"'", ":", "\n">>
NoneText == <<"N", "o", "n", "e">>
AckPrefix == <<"C", "h", "e", "c", "k", "i", "n", "g", " ", "w", "e", "a", "t", "h", "e", "r", " ", "c", "o", "n", "d", "i", "t", "i", "o", "n", "s", " ", "i", "n", " ">>
AckSuffix == <<".", ".", ".">>
WeatherPrefix == <<"T", "h", "e", " ", "w", "e", "a", "t", "h", "e", "r", " ", "i", "n", " ">>
WeatherMiddle == <<" ", "i", "s", " ">>
WeatherSuffix == <<".">>
UrlPrefix == <<"h", "t", "t", "p", "s", ":", "/", "/", "w", "t", "t", "r", ".", "i", "n", "/">>
UrlSuffix == <<"?", "f", "o", "r", "m", "a", "t", "=", "%", "C", "+", "%", "t">>
FailurePrefix == <<"W", "e", "a", "t", "h", "e", "r", " ", "A", "P", "I", " ", "r", "e", "q", "u", "e", "s", "t", " ", "f", "a", "i", "l", "e", "d", ":", " ">>
WelcomePrefix == <<"H", "e", "l", "l", "o", "!", " ", "I", " ", "s", "e", "e", " ", "y", "o", "u", "'", "v", "e", " ", "u", "p", "l", "o", "a", "d", "e", "d", " ", "'">>
WelcomeSuffix == <<"'", ".", " ", "L", "e", "t", "'", "s", " ", "d", "i", "s", "c", "u", "s", "s", " ", "i", "t", "!">>
WelcomePlain == <<"H", "e", "l", "l", "o", "!", " ", "H", "o", "w", " ", "c", "a", "n", " ", "I", " ", "h", "e", "l", "p", " ", "y", "o", "u", " ", "t", "o", "d", "a", "y", "?">>
KeyUploadedFile == <<"u", "p", "l", "o", "a", "d", "e", "d", "F", "i", "l", "e">>
KeyContent == <<"c", "o", "n", "t", "e", "n", "t">>
KeyFilename == <<"f", "i", "l", "e", "n", "a", "m", "e">>
NewYorkRaw == <<"N", "e", "w", " ", "Y", "o", "r", "k", "!", "!">>
NewYorkClean == <<"N", "e", "w", " ", "Y", "o", "r", "k">>
SaoPauloRaw == <<" ", " ", "S", "ã", "o", "_", "P", "a", "u", "l", "o", " ", " ">>
SaoPauloClean == <<"S", " ", "o", " ", "P", "a", "u", "l", "o">>
SunnyBody == <<"S", "u", "n", "n", "y", " ", "+", "2", "1", "C">>
Lower == {"a", "b", "c", "d", "e", "f", "g", "h", "i", "j", "k", "l", "m", "n", "o", "p", "q", "r", "s", "t", "u", "v", "w", "x", "y", "z"}
Upper == {"A", "B", "C", "D", "E", "F", "G", "H", "I", "J", "K", "L", "M", "N", "O", "P", "Q", "R", "S", "T", "U", "V", "W", "X", "Y", "Z"}
Digit == {"0", "1", "2", "3", "4", "5", "6", "7", "8", "9"}

\* --------------------------------------------------------- string helpers
RECURSIVE StringsUpTo(_, _)
StringsUpTo(chars, n) ==
  IF n = 0 THEN {<<>>}
  ELSE LET shorter == StringsUpTo(chars, n - 1)
       IN  shorter \cup {Append(s, c) : s \in shorter, c \in chars}

Contains(hay, needle) ==
  \E i \in 0..(Len(hay) - Len(needle)) :
     SubSeq(hay, i + 1, i + Len(needle)) = needle

Last(s) == s[Len(s)]

RECURSIVE IntStr(_)
IntStr(n) ==
  LET d == <<"0", "1", "2", "3", "4", "5", "6", "7", "8", "9">>
  IN  IF n < 10 THEN <<d[n + 1]>> ELSE IntStr(n \div 10) \o <<d[(n % 10) + 1]>>

\* ---------------------------------------------------------- Python values
None == [t |-> "none", v |-> <<>>]
Str(s) == [t |-> "str", v |-> s]
Dict(pairs) == [t |-> "dict", v |-> pairs]

Truthy(x) == x.t # "none" /\ Len(x.v) > 0

PyStr(x) == IF x.t = "none" THEN NoneText ELSE x.v

\* dict lookup: the last pair with the key wins, as json.loads builds it
RECURSIVE DictGet(_, _)
DictGet(pairs, key) ==
  IF pairs = <<>> THEN [found |-> FALSE, val |-> None]
  ELSE IF Last(pairs)[1] = key THEN [found |-> TRUE, val |-> Last(pairs)[2]]
  ELSE DictGet(SubSeq(pairs, 1, Len(pairs) - 1), key)

\* ------------------------------------------------------------- json.loads
\* The metadata text is given as its JSON tokens; a string token carries
\* the decoded string.
TLBrace == [k |-> "{", s |-> <<>>]
TRBrace == [k |-> "}", s |-> <<>>]
TColon == [k |-> ":", s |-> <<>>]
TComma == [k |-> ",", s |-> <<>>]
TNull == [k |-> "null", s |-> <<>>]
TStr(s) == [k |-> "str", s |-> s]

ParseFail == [ok |-> FALSE, val |-> None, next |-> 0]

RECURSIVE ParseValue(_, _)
RECURSIVE ParseMembers(_, _, _)
ParseValue(toks, i) ==
  IF i > Len(toks) THEN ParseFail
  ELSE IF toks[i].k = "str" THEN [ok |-> TRUE, val |-> Str(toks[i].s), next |-> i + 1]
  ELSE IF toks[i].k = "null" THEN [ok |-> TRUE, val |-> None, next |-> i + 1]
  ELSE IF toks[i].k = "{" THEN
         IF i + 1 <= Len(toks) /\ toks[i + 1].k = "}"
         THEN [ok |-> TRUE, val |-> Dict(<<>>), next |-> i + 2]
         ELSE ParseMembers(toks, i + 1, <<>>)
  ELSE ParseFail

ParseMembers(toks, i, acc) ==
  IF i + 1 > Len(toks) \/ toks[i].k # "str" \/ toks[i + 1].k # ":" THEN ParseFail
  ELSE LET item == ParseValue(toks, i + 2)
       IN  IF ~item.ok THEN ParseFail
           ELSE LET pairs == Append(acc, <<toks[i].s, item.val>>)
                    j == item.next
                IN  IF j > Len(toks) THEN ParseFail
                    ELSE IF toks[j].k = "}" THEN [ok |-> TRUE, val |-> Dict(pairs), next |-> j + 1]
                    ELSE IF toks[j].k = "," THEN ParseMembers(toks, j + 1, pairs)
                    ELSE ParseFail

json_loads(toks) ==
  LET r == ParseValue(toks, 1)
  IN  IF r.ok /\ r.next = Len(toks) + 1 THEN [ok |-> TRUE, val |-> r.val]
      ELSE [ok |-> FALSE, val |-> None]

\* ------------------------------------------------------ DocumentAssistant
\* The names registered by the @llm.ai_callable() decorators of the class.
AiCallables == {"get_document_content", "fetch_weather"}

\* load_document_from_metadata: the document fields after the call.  Every
\* exception is caught by the handler, so the call never raises.
load_document_from_metadata(content, name, metadata) ==
  LET same == [content |-> content, name |-> name, raised |-> FALSE]
      parsed_data == json_loads(metadata)
  IN  IF ~parsed_data.ok THEN same                       \* JSONDecodeError
      ELSE IF parsed_data.val.t # "dict" THEN same       \* AttributeError on .get
      ELSE LET uploaded_file == DictGet(parsed_data.val.v, KeyUploadedFile)
           IN  IF ~uploaded_file.found \/ ~Truthy(uploaded_file.val) THEN same
               ELSE IF uploaded_file.val.t # "dict" THEN same   \* TypeError on str index
               ELSE LET c == DictGet(uploaded_file.val.v, KeyContent)
                        f == DictGet(uploaded_file.val.v, KeyFilename)
                    IN  IF ~c.found THEN same            \* KeyError 'content'
                        ELSE IF ~f.found                 \* KeyError 'filename'
                             THEN [content |-> c.val, name |-> name, raised |-> FALSE]
                             ELSE [content |-> c.val, name |-> f.val, raised |-> FALSE]

get_document_content(content, name) ==
  IF ~Truthy(content) THEN NoDocumentMsg
  ELSE ContentsPrefix \o PyStr(name) \o ContentsMiddle \o PyStr(content)

\* ------------------------------------------------------- re.sub and strip
AlnumChars == Lower \cup Upper \cup Digit
IsAlnum(c) == c \in AlnumChars
Whitespace == {" ", "\t", "\n"}

RECURSIVE DropRun(_)
DropRun(s) ==
  IF s = <<>> \/ IsAlnum(Head(s)) THEN s ELSE DropRun(Tail(s))

\* the pattern without its "+": every character is replaced on its own
RECURSIVE re_sub_each(_)
re_sub_each(s) ==
  IF s = <<>> THEN <<>>
  ELSE IF IsAlnum(Head(s)) THEN <<Head(s)>> \o re_sub_each(Tail(s))
  ELSE <<" ">> \o re_sub_each(Tail(s))

\* re.sub(r"[^a-zA-Z0-9]+", " ", s): leftmost, greedy, non-overlapping
RECURSIVE re_sub(_)
re_sub(s) ==
  IF s = <<>> THEN <<>>
  ELSE IF IsAlnum(Head(s)) THEN <<Head(s)>> \o re_sub(Tail(s))
  ELSE <<" ">> \o re_sub(DropRun(Tail(s)))

RECURSIVE lstrip(_)
lstrip(s) ==
  IF s # <<>> /\ Head(s) \in Whitespace THEN lstrip(Tail(s)) ELSE s

RECURSIVE rstrip(_)
rstrip(s) ==
  IF s # <<>> /\ Last(s) \in Whitespace THEN rstrip(SubSeq(s, 1, Len(s) - 1)) ELSE s

strip(s) == rstrip(lstrip(s))

sanitized_location(location) == strip(re_sub(location))

\* ----------------------------------------------------------- input sets
DocChars == {"x"}
DocStrings == StringsUpTo(DocChars, MaxStrLen)

\* location arguments: clean, empty, with leading, trailing and interior runs
Locations ==
  {<<>>, <<"a">>, <<"!", "a">>, <<"a", " ">>, <<"a", "!", " ", "a">>}

SanChars == {"a", "Z", "7", " ", "!", "_", "é"}
SanInputs == StringsUpTo(SanChars, MaxSanLen) \cup {NewYorkRaw, SaoPauloRaw}

Statuses == {200, 404, 503}
Bodies == {<<>>, SunnyBody}

\* {"uploadedFile": {"filename": F, "content": C}}
Form(F, C) ==
  <<TLBrace, TStr(KeyUploadedFile), TColon,
      TLBrace, TStr(KeyFilename), TColon, TStr(F), TComma,
               TStr(KeyContent), TColon, TStr(C), TRBrace,
    TRBrace>>

\* {"uploadedFile": {key: value}}
OneField(key, value) ==
  <<TLBrace, TStr(KeyUploadedFile), TColon,
      TLBrace, TStr(key), TColon, value, TRBrace,
    TRBrace>>

\* {"uploadedFile": value}
Upload(value) == <<TLBrace, TStr(KeyUploadedFile), TColon, value, TRBrace>>

FormMetadata == {Form(F, C) : F \in DocStrings, C \in DocStrings}

PartialMetadata ==
  {OneField(KeyContent, TStr(C)) : C \in DocStrings}
  \cup {OneField(KeyFilename, TStr(F)) : F \in DocStrings}
  \cup {Upload(TNull), Upload(TStr(<<"x">>)), Upload(TStr(<<>>)),
        <<TLBrace, TRBrace>>, <<TNull>>,
        <<TLBrace, TStr(<<"x">>), TColon, TStr(<<"x">>), TRBrace>>,
        <<TLBrace, TStr(KeyUploadedFile), TColon, TLBrace, TRBrace, TRBrace>>,
        <<TStr(<<"x">>)>>}

NullFieldMetadata ==
  {<<TLBrace, TStr(KeyUploadedFile), TColon,
      TLBrace, TStr(KeyFilename), TColon, TStr(<<"x">>), TComma,
               TStr(KeyContent), TColon, TNull, TRBrace,
     TRBrace>>,
   <<TLBrace, TStr(KeyUploadedFile), TColon,
      TLBrace, TStr(KeyFilename), TColon, TNull, TComma,
               TStr(KeyContent), TColon, TStr(<<"x">>), TRBrace,
     TRBrace>>}

BrokenMetadata ==
  {<<TLBrace>>,
   <<TLBrace, TStr(KeyUploadedFile), TRBrace>>,
   <<TLBrace, TStr(KeyUploadedFile), TColon,
      TLBrace, TStr(KeyContent), TColon, TStr(<<"x">>), TComma, TRBrace,
     TRBrace>>,
   SubSeq(Form(<<"x">>, <<"x">>), 1, 12)}

Metadatas ==
  {<<>>} \cup FormMetadata \cup PartialMetadata \cup NullFieldMetadata \cup BrokenMetadata

\* ------------------------------------------------------------------ state
VARIABLES
  pc,                \* position of entrypoint
  connected,         \* ctx.connect has returned
  joined,            \* wait_for_participant has returned
  metadata,          \* participant.metadata
  ai_functions,      \* callables registered on doc_handler ({} before it exists)
  document_content,  \* doc_handler.document_content
  document_name,     \* doc_handler.document_name
  load_raised,       \* load_document_from_metadata raised to entrypoint
  callbacks,         \* metrics handler and shutdown callback attached
  started,           \* assistant.start has been called
  greeting,          \* welcome_msg once spoken, <<>> before
  messages,          \* chat_ctx.messages
  fw_pc,             \* position of the fetch_weather invocation in flight
  fw_raw,            \* its location argument
  fw_loc,            \* its sanitized_location
  fw_len0,           \* length of messages when it was invoked
  fw_need_ack,       \* the acknowledgment condition when it was invoked
  fw_gets,           \* HTTP GETs it has issued
  fw_url,            \* URL of its last GET
  result,            \* outcome of the last completed tool invocation
  gdc_calls,         \* completed get_document_content invocations
  fw_calls,          \* started fetch_weather invocations
  content_seen,      \* texts get_document_content has returned
  fw_run,            \* fetch_weather invocations since another history change
  ack_run,           \* acknowledgments appended since another history change
  san_pc,            \* sanitizer harness: position
  san_in,            \* sanitizer harness: input
  san_out,           \* sanitizer harness: sanitized input
  san_again          \* sanitizer harness: sanitized output

sessionVars ==
  <<pc, connected, joined, metadata, ai_functions, document_content, document_name,
    load_raised, callbacks, started, greeting, messages, fw_pc, fw_raw, fw_loc,
    fw_len0, fw_need_ack, fw_gets, fw_url, result, gdc_calls, fw_calls,
    content_seen, fw_run, ack_run>>

sanVars == <<san_pc, san_in, san_out, san_again>>

vars == <<sessionVars, sanVars>>

docVars == <<ai_functions, document_content, document_name, load_raised>>
bootVars == <<pc, connected, joined, metadata, callbacks, started, greeting>>
fwVars == <<fw_pc, fw_raw, fw_loc, fw_len0, fw_need_ack, fw_gets, fw_url>>

Message(role, text) == [role |-> role, text |-> text]

SystemPrompt == <<"s", "y", "s">>
UserText == <<"h", "i">>

NoResult ==
  [tool |-> "none", kind |-> "none", text |-> <<>>, status |-> 0, gets |-> 0,
   url |-> <<>>, raw |-> <<>>, body |-> <<>>]

SessionInit ==
  /\ pc = "connect"
  /\ connected = FALSE
  /\ joined = FALSE
  /\ metadata = <<>>
  /\ ai_functions = {}
  /\ document_content = None
  /\ document_name = None
  /\ load_raised = FALSE
  /\ callbacks = FALSE
  /\ started = FALSE
  /\ greeting = <<>>
  /\ messages = <<Message("system", SystemPrompt)>>
  /\ fw_pc = "idle"
  /\ fw_raw = <<>>
  /\ fw_loc = <<>>
  /\ fw_len0 = 0
  /\ fw_need_ack = FALSE
  /\ fw_gets = 0
  /\ fw_url = <<>>
  /\ result = NoResult
  /\ gdc_calls = 0
  /\ fw_calls = 0
  /\ content_seen = {}
  /\ fw_run = 0
  /\ ack_run = 0

SanIdle ==
  /\ san_pc = "off"
  /\ san_in = <<>>
  /\ san_out = <<>>
  /\ san_again = <<>>

Init == SessionInit /\ SanIdle

\* ------------------------------------------------------------- entrypoint
Connect ==
  /\ pc = "connect"
  /\ connected' = TRUE
  /\ pc' = "wait"
  /\ UNCHANGED <<joined, metadata, callbacks, started, greeting>>
  /\ UNCHANGED <<docVars, messages, fwVars, result, gdc_calls, fw_calls,
                 content_seen, fw_run, ack_run, sanVars>>

WaitForParticipant ==
  /\ pc = "wait"
  /\ \E md \in Metadatas : metadata' = md
  /\ joined' = TRUE
  /\ pc' = "document"
  /\ UNCHANGED <<connected, callbacks, started, greeting>>
  /\ UNCHANGED <<docVars, messages, fwVars, result, gdc_calls, fw_calls,
                 content_seen, fw_run, ack_run, sanVars>>

\* doc_handler = DocumentAssistant(); the loader runs when metadata is truthy
SetupDocument ==
  /\ pc = "document"
  /\ ai_functions' = AiCallables
  /\ LET loaded == IF metadata # <<>>
                   THEN load_document_from_metadata(None, None, metadata)
                   ELSE [content |-> None, name |-> None, raised |-> FALSE]
     IN  /\ document_content' = loaded.content
         /\ document_name' = loaded.name
         /\ load_raised' = loaded.raised
  /\ pc' = "assistant"
  /\ UNCHANGED <<connected, joined, metadata, callbacks, started, greeting>>
  /\ UNCHANGED <<messages, fwVars, result, gdc_calls, fw_calls,
                 content_seen, fw_run, ack_run, sanVars>>

\* VoicePipelineAgent(...), handle_metrics registered, add_shutdown_callback
SetupAssistant ==
  /\ pc = "assistant"
  /\ callbacks' = TRUE
  /\ pc' = "start"
  /\ UNCHANGED <<connected, joined, metadata, started, greeting>>
  /\ UNCHANGED <<docVars, messages, fwVars, result, gdc_calls, fw_calls,
                 content_seen, fw_run, ack_run, sanVars>>

StartAssistant ==
  /\ pc = "start"
  /\ started' = TRUE
  /\ pc' = "greet"
  /\ UNCHANGED <<connected, joined, metadata, callbacks, greeting>>
  /\ UNCHANGED <<docVars, messages, fwVars, result, gdc_calls, fw_calls,
                 content_seen, fw_run, ack_run, sanVars>>

welcome_msg(name) ==
  IF Truthy(name) THEN WelcomePrefix \o PyStr(name) \o WelcomeSuffix
  ELSE WelcomePlain

Greet ==
  /\ pc = "greet"
  /\ greeting' = welcome_msg(document_name)
  /\ messages' = Append(messages, Message("assistant", welcome_msg(document_name)))
  /\ fw_run' = 0
  /\ ack_run' = 0
  /\ pc' = "running"
  /\ UNCHANGED <<connected, joined, metadata, callbacks, started>>
  /\ UNCHANGED <<docVars, fwVars, result, gdc_calls, fw_calls, content_seen, sanVars>>

\* the pipeline commits a user turn to the conversation history; tools are
\* invoked in answer to user turns, one at a time, once the greeting is queued
UserTurn ==
  /\ pc = "running"
  /\ Len(messages) < MaxMsgs
  /\ messages' = Append(messages, Message("user", UserText))
  /\ fw_run' = 0
  /\ ack_run' = 0
  /\ UNCHANGED <<bootVars, docVars, fwVars, result, gdc_calls, fw_calls,
                 content_seen, sanVars>>

\* ------------------------------------------------------- tool invocations
\* the document handed out once and then dropped
GetDocumentContentOnce ==
  /\ pc = "running"
  /\ fw_pc = "idle"
  /\ gdc_calls + fw_calls < MaxCalls
  /\ LET text == get_document_content(document_content, document_name)
     IN  /\ result' = [NoResult EXCEPT !.tool = "get_document_content",
                                       !.kind = "return", !.text = text]
         /\ content_seen' = content_seen \cup {text}
  /\ gdc_calls' = gdc_calls + 1
  /\ document_content' = None
  /\ UNCHANGED <<bootVars, ai_functions, document_name, load_raised, messages, fwVars,
                 fw_calls, fw_run, ack_run, sanVars>>

GetDocumentContent ==
  /\ pc = "running"
  /\ fw_pc = "idle"
  /\ gdc_calls + fw_calls < MaxCalls
  /\ LET text == get_document_content(document_content, document_name)
     IN  /\ result' = [NoResult EXCEPT !.tool = "get_document_content",
                                       !.kind = "return", !.text = text]
         /\ content_seen' = content_seen \cup {text}
  /\ gdc_calls' = gdc_calls + 1
  /\ UNCHANGED <<bootVars, docVars, messages, fwVars, fw_calls, fw_run, ack_run, sanVars>>

NeedsAckAlways(msgs) == TRUE

NeedsAck(msgs) == msgs = <<>> \/ Last(msgs).role # "assistant"

status_msg(loc) == AckPrefix \o loc \o AckSuffix

weather_url(loc) == UrlPrefix \o loc \o UrlSuffix

\* sanitize, then say the acknowledgment (add_to_chat_ctx=True) when needed
FetchWeatherInvoke ==
  /\ pc = "running"
  /\ fw_pc = "idle"
  /\ gdc_calls + fw_calls < MaxCalls
  /\ \E location \in Locations :
       /\ fw_raw' = location
       /\ fw_loc' = sanitized_location(location)
       /\ messages' = IF NeedsAck(messages)
                      THEN Append(messages,
                                  Message("assistant", status_msg(sanitized_location(location))))
                      ELSE messages
  /\ fw_len0' = Len(messages)
  /\ fw_need_ack' = NeedsAck(messages)
  /\ fw_gets' = 0
  /\ fw_url' = <<>>
  /\ fw_pc' = "request"
  /\ fw_calls' = fw_calls + 1
  /\ fw_run' = fw_run + 1
  /\ ack_run' = IF NeedsAck(messages) THEN ack_run + 1 ELSE ack_run
  /\ UNCHANGED <<bootVars, docVars, result, gdc_calls, content_seen, sanVars>>

\* the URL templated with the raw location argument
FetchWeatherGetRaw ==
  /\ fw_pc = "request"
  /\ fw_gets' = fw_gets + 1
  /\ fw_url' = weather_url(fw_raw)
  /\ fw_pc' = "response"
  /\ UNCHANGED <<fw_raw, fw_loc, fw_len0, fw_need_ack>>
  /\ UNCHANGED <<bootVars, docVars, messages, result, gdc_calls, fw_calls,
                 content_seen, fw_run, ack_run, sanVars>>

\* session.get(f"https://wttr.in/{sanitized_location}?format=%C+%t")
FetchWeatherGet ==
  /\ fw_pc = "request"
  /\ fw_gets' = fw_gets + 1
  /\ fw_url' = weather_url(fw_loc)
  /\ fw_pc' = "response"
  /\ UNCHANGED <<fw_raw, fw_loc, fw_len0, fw_need_ack>>
  /\ UNCHANGED <<bootVars, docVars, messages, result, gdc_calls, fw_calls,
                 content_seen, fw_run, ack_run, sanVars>>

\* the failure logged and returned as text instead of raised
weather_outcome_swallow(loc, status, body) ==
  IF status = 200
  THEN [kind |-> "return", text |-> WeatherPrefix \o loc \o WeatherMiddle \o body \o WeatherSuffix]
  ELSE [kind |-> "return", text |-> WeatherPrefix \o loc \o WeatherMiddle \o FailurePrefix \o WeatherSuffix]

\* the outcome of the invocation for a response (status, body)
weather_outcome(loc, status, body) ==
  IF status = 200
  THEN [kind |-> "return", text |-> WeatherPrefix \o loc \o WeatherMiddle \o body \o WeatherSuffix]
  ELSE [kind |-> "raise", text |-> FailurePrefix \o IntStr(status)]

FetchWeatherRespond ==
  /\ fw_pc = "response"
  /\ \E status \in Statuses, body \in Bodies :
       LET out == weather_outcome(fw_loc, status, body)
       IN  result' = [tool |-> "fetch_weather", kind |-> out.kind, text |-> out.text,
                      status |-> status, gets |-> fw_gets, url |-> fw_url,
                      raw |-> fw_raw, body |-> body]
  /\ fw_pc' = "idle"
  /\ UNCHANGED <<fw_raw, fw_loc, fw_len0, fw_need_ack, fw_gets, fw_url>>
  /\ UNCHANGED <<bootVars, docVars, messages, gdc_calls, fw_calls,
                 content_seen, fw_run, ack_run, sanVars>>

Next ==
  \/ Connect
  \/ WaitForParticipant
  \/ SetupDocument
  \/ SetupAssistant
  \/ StartAssistant
  \/ Greet
  \/ UserTurn
  \/ GetDocumentContent
  \/ FetchWeatherInvoke
  \/ FetchWeatherGet
  \/ FetchWeatherRespond

Spec == Init /\ [][Next]_vars

\* ------------------------------------------------------ sanitizer harness
SanInit ==
  /\ SessionInit
  /\ san_pc = "in"
  /\ san_in \in SanInputs
  /\ san_out = <<>>
  /\ san_again = <<>>

Sanitize ==
  /\ san_pc = "in"
  /\ san_out' = sanitized_location(san_in)
  /\ san_pc' = "out"
  /\ UNCHANGED <<san_in, san_again, sessionVars>>

SanitizeAgain ==
  /\ san_pc = "out"
  /\ san_again' = sanitized_location(san_out)
  /\ san_pc' = "again"
  /\ UNCHANGED <<san_in, san_out, sessionVars>>

SanNext ==
  \/ Sanitize
  \/ SanitizeAgain

SpecSanitize == SanInit /\ [][SanNext]_vars

\* ------------------------------------------------------------ properties
\* the loader has returned (or was skipped) and the registry exists
Loaded == pc \notin {"connect", "wait", "document"}

IsSet(x) == x.t # "none"

\* metadata that is not valid JSON, or valid JSON without
\* uploadedFile.content or uploadedFile.filename
LackingMetadata == {<<>>} \cup BrokenMetadata \cup PartialMetadata

\* the words of a string: its maximal runs of [a-zA-Z0-9]
RECURSIVE SplitWords(_, _, _)
SplitWords(s, cur, acc) ==
  LET closed == IF cur = <<>> THEN acc ELSE Append(acc, cur)
  IN  IF s = <<>> THEN closed
      ELSE IF IsAlnum(Head(s)) THEN SplitWords(Tail(s), Append(cur, Head(s)), acc)
      ELSE SplitWords(Tail(s), <<>>, closed)

RECURSIVE JoinWords(_)
JoinWords(ws) ==
  IF ws = <<>> THEN <<>>
  ELSE IF Len(ws) = 1 THEN ws[1]
  ELSE ws[1] \o <<" ">> \o JoinWords(Tail(ws))

\* the words of the input joined by single spaces
SanitizeRef(s) == JoinWords(SplitWords(s, <<>>, <<>>))

RECURSIVE OnlyAlnum(_)
OnlyAlnum(s) ==
  IF s = <<>> THEN <<>>
  ELSE IF IsAlnum(Head(s)) THEN <<Head(s)>> \o OnlyAlnum(Tail(s))
  ELSE OnlyAlnum(Tail(s))

\* C1: once load_document_from_metadata has returned, document_content and
\* document_name are both set or both unset, in every later state.
C1_BothOrNeither ==
  Loaded => (IsSet(document_content) <=> IsSet(document_name))

\* C2: for metadata that is invalid JSON or lacks uploadedFile.content or
\* uploadedFile.filename, the loader raises nothing, the document state stays
\* empty and get_document_content returns the fixed "no document" message.
C2_LackingStaysEmpty ==
  (Loaded /\ metadata \in LackingMetadata) =>
     /\ ~load_raised
     /\ ~IsSet(document_content)
     /\ ~IsSet(document_name)
     /\ (result.tool = "get_document_content" => result.text = NoDocumentMsg)

\* C3: for metadata {"uploadedFile":{"filename":F,"content":C}}, F and C any
\* strings, get_document_content returns a string containing both F and C.
C3_FormContent ==
  \A F \in DocStrings, C \in DocStrings :
     (metadata = Form(F, C) /\ result.tool = "get_document_content") =>
        (Contains(result.text, F) /\ Contains(result.text, C))

\* C4: a fetch_weather invocation appends exactly one acknowledgment
\* "Checking weather conditions in <sanitized location>..." when the history is
\* empty or its last entry is not from the assistant, and does so before the
\* GET; otherwise it appends nothing; so a run of invocations with no other
\* history change appends at most one acknowledgment.
C4_StepOk ==
  /\ (fw_pc = "idle" /\ fw_pc' = "request") =>
        /\ fw_gets' = 0
        /\ IF messages = <<>> \/ messages[Len(messages)].role # "assistant"
           THEN messages' = Append(messages,
                    Message("assistant", AckPrefix \o SanitizeRef(fw_raw') \o AckSuffix))
           ELSE messages' = messages
  /\ (fw_pc # "idle" /\ fw_pc' # fw_pc) => messages' = messages
  /\ (fw_gets' > fw_gets /\ fw_gets' > 0) =>
        (fw_need_ack =>
           /\ Len(messages) > fw_len0
           /\ messages[fw_len0 + 1] =
                 Message("assistant", AckPrefix \o SanitizeRef(fw_raw) \o AckSuffix))

C4_Acknowledgment == [][C4_StepOk]_vars /\ [](ack_run <= 1)

C4_Witness ==
  /\ fw_run = 2
  /\ ack_run = 1
  /\ fw_pc = "response"
  /\ ~fw_need_ack

\* C5: a fetch_weather invocation answered with a status other than 200 raises
\* an error carrying that status, returns no weather sentence and has issued
\* exactly one GET.
C5_Non200Raises ==
  (result.tool = "fetch_weather" /\ result.status # 200) =>
     /\ result.kind = "raise"
     /\ Contains(result.text, IntStr(result.status))
     /\ ~Contains(result.text, WeatherPrefix)
     /\ result.gets = 1

C5_Witness ==
  /\ result.tool = "fetch_weather"
  /\ result.status = 503
  /\ result.kind = "raise"
  /\ fw_pc = "idle"

\* C6: a fetch_weather invocation whose single GET is answered 200 with body B
\* returns "The weather in <sanitize(L)> is <B>." with B verbatim, and the URL
\* of the GET holds the sanitized location, not the raw one.
C6_OkSentence ==
  (result.tool = "fetch_weather" /\ result.status = 200) =>
     /\ result.kind = "return"
     /\ result.text = WeatherPrefix \o SanitizeRef(result.raw) \o WeatherMiddle
                         \o result.body \o WeatherSuffix
     /\ result.url = UrlPrefix \o SanitizeRef(result.raw) \o UrlSuffix
     /\ result.gets = 1

C6_Witness ==
  /\ result.tool = "fetch_weather"
  /\ result.status = 200
  /\ result.body = SunnyBody
  /\ result.raw = <<"a", "!", " ", "a">>
  /\ Contains(result.text, <<"a", " ", "a">> \o WeatherMiddle \o SunnyBody)

\* C7: the sanitizer replaces each maximal run of characters outside
\* [a-zA-Z0-9] by one space and trims: the output holds only alphanumerics and
\* single interior spaces, no leading or trailing space, the alphanumerics in
\* order, and sanitizing it again changes nothing ("New York!!" -> "New York").
C7_Sanitizer ==
  (san_pc \in {"out", "again"}) =>
     /\ san_out = SanitizeRef(san_in)
     /\ \A i \in 1..Len(san_out) : IsAlnum(san_out[i]) \/ san_out[i] = " "
     /\ \A i \in 1..(Len(san_out) - 1) : ~(san_out[i] = " " /\ san_out[i + 1] = " ")
     /\ san_out # <<>> => (san_out[1] # " " /\ san_out[Len(san_out)] # " ")
     /\ OnlyAlnum(san_out) = OnlyAlnum(san_in)
     /\ san_in = NewYorkRaw => san_out = NewYorkClean
     /\ san_in = SaoPauloRaw => san_out = SaoPauloClean
     /\ san_pc = "again" => san_again = san_out

C7_Witness ==
  /\ san_pc = "again"
  /\ san_in = NewYorkRaw
  /\ san_out = NewYorkClean
  /\ san_again = NewYorkClean

\* C8: the registry exposes four callable operations, get_document_summary
\* among them.
C8_FourOperations ==
  Loaded =>
     /\ Cardinality(ai_functions) = 4
     /\ "get_document_summary" \in ai_functions

\* C9: the greeting is spoken only after connect, participant join, registry
\* construction, callback attachment and agent start, and it names the document
\* exactly when get_document_content would return document text.
C9_Greeting ==
  (greeting # <<>>) =>
     /\ connected
     /\ joined
     /\ ai_functions # {}
     /\ callbacks
     /\ started
     /\ (greeting # WelcomePlain) <=>
           (get_document_content(document_content, document_name) # NoDocumentMsg)

\* C10: after the loader has run the document state never changes; a
\* get_document_content invocation also leaves the history and the network
\* untouched, and repeated invocations return the same text.
C10_StepOk ==
  /\ Loaded =>
        /\ document_content' = document_content
        /\ document_name' = document_name
  /\ (gdc_calls' # gdc_calls) =>
        /\ messages' = messages
        /\ fw_gets' = fw_gets
        /\ fw_pc' = fw_pc
        /\ fw_url' = fw_url

C10_Frame == [][C10_StepOk]_vars /\ [](Cardinality(content_seen) <= 1)

C10_Witness ==
  /\ gdc_calls = 2
  /\ fw_calls = 1
  /\ fw_gets = 1
  /\ fw_need_ack
  /\ IsSet(document_content)
  /\ Len(document_content.v) > 0
  /\ result.tool = "get_document_content"
  /\ Contains(result.text, ContentsPrefix)

====
